---- MODULE Spec2Model ----
(***************************************************************************)
(* A model of the three build-automation scripts of .github/scripts:       *)
(*   merge_vcpkg_config.py     (Registry Merger)                           *)
(*   extract_vcpkg_version.py  (Version Extractor)                         *)
(*   generate_port_files.py    (Port File Generator)                       *)
(* Each script is a short-lived process: one action of the model is one    *)
(* whole process run, reading the files and the environment and writing    *)
(* files, the two output streams and an exit code.                         *)
(*                                                                         *)
(* Text the scripts look into (tags, dependency names, versions) is a      *)
(* sequence of one-character strings; labels of log lines are strings.     *)
(***************************************************************************)
EXTENDS Integers, Sequences, FiniteSets, TLC

VARIABLES
    manifest,        \* the file vcpkg.json of the working directory
    configFile,      \* the file vcpkg-configuration.json
    sourceManifest,  \* the file source_extracted/vcpkg.json
    port,            \* the directory registry/ports/<name> and its two files
    stdout,          \* what the last process wrote to standard output
    stderr,          \* what the last process wrote to the error stream
    exitCode,        \* the exit code of the last process (-1: none has run)
    hist             \* one record per process run, oldest first

vars == <<manifest, configFile, sourceManifest, port, stdout, stderr, exitCode, hist>>

----------------------------------------------------------------------------
(* Bounds of the model *)

MaxRegs == 2     \* registries already in a configuration
MaxRuns == 2     \* successive runs of the Registry Merger
MaxVerLen == 1   \* characters of a version value in the manifest
MaxTagLen == 2   \* characters of TAG_VERSION
MaxDeps == 2     \* dependencies of the source manifest

----------------------------------------------------------------------------
(* Text *)

Str_empty == <<>>
Str_c1 == <<"c", "1">>
Str_c2 == <<"c", "2">>
Str_pkgA == <<"p", "k", "g", "A">>
Str_other == <<"o", "t", "h", "e", "r">>
Str_widget == <<"w", "i", "d", "g", "e", "t">>
Str_hash == <<"a", "b", "c", "d">>
Str_vcpkg_cmake == <<"v", "c", "p", "k", "g", "-", "c", "m", "a", "k", "e">>
Str_vcpkg_cmake_config == Str_vcpkg_cmake \o <<"-", "c", "o", "n", "f", "i", "g">>
Str_vcpkg_cmake_fix == Str_vcpkg_cmake \o <<"-", "f", "i", "x">>
Str_Vcpkg_cmake == <<"V">> \o Tail(Str_vcpkg_cmake)
Str_vcpkg_cmak == SubSeq(Str_vcpkg_cmake, 1, 10)
Str_zlib == <<"z", "l", "i", "b">>

\* All sequences over alphabet of length at most n
RECURSIVE SeqsUpTo(_, _)
SeqsUpTo(alphabet, n) ==
    IF n = 0 THEN {<<>>}
    ELSE LET shorter == SeqsUpTo(alphabet, n - 1)
         IN  shorter \cup {Append(s, a) : s \in shorter, a \in alphabet}

\* An environment variable: os.environ.get gives None when it is unset
Unset == [set |-> FALSE, val |-> Str_empty]
EnvOf(s) == [set |-> TRUE, val |-> s]

\* Python truth of os.environ.get(...): None and "" are false
Truthy(e) == e.set /\ e.val # Str_empty

\* One thing written to a stream: a log line (kind info, warning, error), a
\* traceback (kind trace) or a bare value (kind value); nl: ends in a newline
Line(kind, msg) == [kind |-> kind, msg |-> msg, val |-> Str_empty, nl |-> TRUE]
Value(val, nl) == [kind |-> "value", msg |-> "", val |-> val, nl |-> nl]

\* The events of a process, in order: each is a line and the stream it went to
Emit(stream, line) == [stream |-> stream, line |-> line]

OnStream(events, stream) ==
    LET on(e) == e.stream = stream
        picked == SelectSeq(events, on)
    IN  [i \in 1..Len(picked) |-> picked[i].line]

\* traceback.print_exc() writes the stack trace to sys.stderr
print_exc == Emit("stderr", Line("trace", "traceback"))

\* The environment of a process: the variables the three scripts read
Env(commit_hash, vcpkg_package_name, repo_name, tag_version, hash_value, github_repo) ==
    [COMMIT_HASH |-> commit_hash, VCPKG_PACKAGE_NAME |-> vcpkg_package_name,
     REPO_NAME |-> repo_name, TAG_VERSION |-> tag_version, HASH |-> hash_value,
     GITHUB_REPOSITORY |-> github_repo]

----------------------------------------------------------------------------
(* JSON documents and files *)

\* A member of a manifest that may be missing
NoField == [present |-> FALSE, val |-> Str_empty]
Field(v) == [present |-> TRUE, val |-> v]

\* One element of "registries"
RegistryEntry(kind, repository, baseline, packages) ==
    [kind |-> kind, repository |-> repository, baseline |-> baseline, packages |-> packages]

\* The value of a configuration: JSON null, another non-object (kind scalar),
\* or an object whose "registries" is missing (regs absent), null or a number
\* (regs notlist), or an array (regs list)
Config(kind, regs, registries) == [kind |-> kind, regs |-> regs, registries |-> registries]
NullConfig == Config("null", "absent", <<>>)
ScalarConfig == Config("scalar", "absent", <<>>)

\* The value of vcpkg.json: a number, true, false or null (kind scalar), an
\* array of numbers (kind array) or an object (kind obj)
Manifest(kind, hasConfiguration, configuration, version, versionString, versionSemver) ==
    [kind |-> kind, hasConfiguration |-> hasConfiguration, configuration |-> configuration,
     version |-> version, versionString |-> versionString, versionSemver |-> versionSemver]
ScalarManifest == Manifest("scalar", FALSE, NullConfig, NoField, NoField, NoField)
ArrayManifest == Manifest("array", FALSE, NullConfig, NoField, NoField, NoField)

\* A file: missing (absent), text that is no JSON (bad), or the text of a JSON
\* document (ok)
AbsentFile(blank) == [state |-> "absent", json |-> blank]
BadFile(blank) == [state |-> "bad", json |-> blank]

\* json.dump(value, f, indent=2) into a file opened with 'w': the file is
\* replaced by the text of value
json_dump(value) == [state |-> "ok", json |-> value]

\* json.load(f): the value of the text, or json.JSONDecodeError
json_load(file) == [raised |-> file.state # "ok", value |-> file.json]

\* Path(...).exists()
exists(file) == file.state # "absent"

----------------------------------------------------------------------------
(* merge_vcpkg_config.py *)

\* log_info and log_error print to standard output
merge_log_info(message) == Emit("stdout", Line("info", message))
merge_log_error(message) == Emit("stdout", Line("error", message))

REGISTRY_URL == "https://github.com/ridgetradinggroup/vcpkg-ridge"

\* The result of read_vcpkg_config: raised is an exception that leaves the
\* function (TypeError of `in` on a number, true, false or null); config
\* NullConfig is Python's None
Discovery(raised, config, config_type, events) ==
    [raised |-> raised, config |-> config, config_type |-> config_type, events |-> events]

\* The fallback to the separate file
read_separate(c, events) ==
    IF exists(c)
    THEN LET logged == Append(events, merge_log_info("Using separate vcpkg-configuration.json"))
             loaded == json_load(c)
         IN  IF loaded.raised
             THEN Discovery(FALSE, NullConfig, "none",
                      logged \o <<merge_log_error("Failed to parse vcpkg-configuration.json"),
                                  merge_log_error("No vcpkg configuration found")>>)
             ELSE Discovery(FALSE, loaded.value, "separate", logged)
    ELSE Discovery(FALSE, NullConfig, "none",
             Append(events, merge_log_error("No vcpkg configuration found")))

read_vcpkg_config(m, c) ==
    IF exists(m)
    THEN LET loaded == json_load(m)
         IN  IF loaded.raised
             THEN read_separate(c, <<merge_log_error("Failed to parse vcpkg.json")>>)
             ELSE IF loaded.value.kind = "scalar"
             THEN Discovery(TRUE, NullConfig, "none", <<>>)
             ELSE IF loaded.value.kind = "obj" /\ loaded.value.hasConfiguration
             THEN Discovery(FALSE, loaded.value.configuration, "embedded",
                      <<merge_log_info("Using embedded configuration from vcpkg.json")>>)
             ELSE read_separate(c, <<>>)
    ELSE read_separate(c, <<>>)

our_registry(commit_hash, vcpkg_package_name) ==
    RegistryEntry("git", REGISTRY_URL, commit_hash, <<vcpkg_package_name>>)

\* What a process leaves: its exit code, its events and the two files
MergeResult(code, events, m, c, config_type) ==
    [code |-> code, events |-> events, manifest |-> m, configFile |-> c,
     config_type |-> config_type]

merge_unexpected ==
    <<merge_log_error("Unexpected error"), merge_log_error("Exception type"), print_exc>>

\* A merger that puts the new entry first
merged_registries_prepend(config, commit_hash, vcpkg_package_name) ==
    <<our_registry(commit_hash, vcpkg_package_name)>>
        \o (IF config.regs = "absent" THEN <<>> ELSE config.registries)

\* A merger that skips an entry the configuration already holds
merged_registries_dedup(config, commit_hash, vcpkg_package_name) ==
    LET old == IF config.regs = "absent" THEN <<>> ELSE config.registries
        new == our_registry(commit_hash, vcpkg_package_name)
    IN  IF \E i \in 1..Len(old) : old[i] = new THEN old ELSE Append(old, new)

\* config['registries'] after lines 69-83
merged_registries(config, commit_hash, vcpkg_package_name) ==
    Append(IF config.regs = "absent" THEN <<>> ELSE config.registries,
           our_registry(commit_hash, vcpkg_package_name))

\* A write-back that always uses the separate file
write_back_separate(config_type, m, c, merged) ==
    [events |-> <<merge_log_info("Writing updated configuration to vcpkg-configuration.json (separate)")>>,
     manifest |-> m,
     configFile |-> json_dump(merged)]

\* Lines 85-96: the merged configuration goes back to the file it came from
write_back(config_type, m, c, merged) ==
    IF config_type = "embedded"
    THEN [events |-> <<merge_log_info("Writing updated configuration back to vcpkg.json (embedded)")>>,
          manifest |-> json_dump([m.json EXCEPT !.configuration = merged]),
          configFile |-> c]
    ELSE [events |-> <<merge_log_info("Writing updated configuration to vcpkg-configuration.json (separate)")>>,
          manifest |-> m,
          configFile |-> json_dump(merged)]

merge_main(env, m, c) ==
    LET commit_hash == env.COMMIT_HASH
        vcpkg_package_name == env.VCPKG_PACKAGE_NAME
        started == <<merge_log_info("Merging registry with commit hash"),
                     merge_log_info("vcpkg package name")>>
    IN  IF ~Truthy(commit_hash) \/ ~Truthy(vcpkg_package_name)
        THEN MergeResult(1, started \o <<merge_log_error("Missing required environment variables"),
                                         merge_log_error("COMMIT_HASH"),
                                         merge_log_error("VCPKG_PACKAGE_NAME")>>, m, c, "none")
        ELSE
        LET read == read_vcpkg_config(m, c)
            config == read.config
            found == started \o read.events
        IN  IF read.raised
            THEN MergeResult(1, found \o merge_unexpected, m, c, "none")
            ELSE IF config.kind = "null"
            THEN MergeResult(1, found, m, c, read.config_type)
            ELSE IF config.kind = "scalar" \/ config.regs = "notlist"
            THEN MergeResult(1, found \o merge_unexpected, m, c, read.config_type)
            ELSE
            LET created == IF config.regs = "absent"
                           THEN <<merge_log_info("Created new registries array")>>
                           ELSE <<>>
                merged == [config EXCEPT !.regs = "list",
                              !.registries = merged_registries(config, commit_hash.val, vcpkg_package_name.val)]
                logged == found
                    \o <<merge_log_info("Loaded existing configuration"),
                         merge_log_info("Existing config keys"),
                         merge_log_info("Existing registries count")>>
                    \o created
                    \o <<merge_log_info("Adding registry")>>
                done == <<merge_log_info("Final config registries count"),
                          merge_log_info("Successfully merged private registry"),
                          merge_log_info("Verification")>>
                written == write_back(read.config_type, m, c, merged)
            IN  MergeResult(0, logged \o written.events \o done,
                    written.manifest, written.configFile, read.config_type)

\* The process: main() and the __main__ block
merge_process(env, m, c) ==
    LET r == merge_main(env, m, c)
    IN  IF r.code # 0
        THEN [r EXCEPT !.events = Append(@, Emit("stdout", Line("error", "Script failed with exit code")))]
        ELSE r

\* The record of one process run: what was run, with which environment, how
\* it ended, and the files it found
Run(script, env, code, config_type) ==
    [script |-> script, env |-> env, code |-> code, config_type |-> config_type,
     manifest |-> manifest, configFile |-> configFile, port |-> port]

MergeRun(env) ==
    /\ Len(hist) < MaxRuns
    /\ LET r == merge_process(env, manifest, configFile)
       IN  /\ manifest' = r.manifest
           /\ configFile' = r.configFile
           /\ stdout' = OnStream(r.events, "stdout")
           /\ stderr' = OnStream(r.events, "stderr")
           /\ exitCode' = r.code
           /\ hist' = Append(hist, Run("merge", env, r.code, r.config_type))
    /\ UNCHANGED <<sourceManifest, port>>

\* The registries a configuration may hold before the merger runs: entries of
\* another registry and entries equal to the one a run appends
PriorEntries ==
    {RegistryEntry("git", "https://example.com/other-registry", Str_c2, <<Str_other>>),
     our_registry(Str_c1, Str_pkgA)}

Configs ==
    {NullConfig, ScalarConfig, Config("obj", "absent", <<>>), Config("obj", "notlist", <<>>)}
        \cup {Config("obj", "list", regs) : regs \in SeqsUpTo(PriorEntries, MaxRegs)}

MergeManifests ==
    {AbsentFile(ScalarManifest), BadFile(ScalarManifest),
     json_dump(ScalarManifest), json_dump(ArrayManifest),
     json_dump(Manifest("obj", FALSE, NullConfig, Field(<<"1">>), NoField, NoField))}
        \cup {json_dump(Manifest("obj", TRUE, cfg, Field(<<"1">>), NoField, NoField)) : cfg \in Configs}

ConfigFiles ==
    {AbsentFile(NullConfig), BadFile(NullConfig)} \cup {json_dump(cfg) : cfg \in Configs}

MergeEnvs ==
    {Env(h, p, Unset, Unset, Unset, Unset) :
        h \in {Unset, EnvOf(Str_empty), EnvOf(Str_c1), EnvOf(Str_c2)},
        p \in {EnvOf(Str_pkgA)}}
        \cup {Env(EnvOf(Str_c1), p, Unset, Unset, Unset, Unset) : p \in {Unset, EnvOf(Str_empty)}}

\* The value of source_extracted/vcpkg.json: kind as for vcpkg.json; name,
\* description and homepage are members that may be missing; dependencies is
\* missing or an array
SourceManifest(kind, name, description, homepage, dependencies) ==
    [kind |-> kind, name |-> name, description |-> description, homepage |-> homepage,
     dependencies |-> dependencies]
NoDependencies == [present |-> FALSE, val |-> <<>>]
ScalarSource == SourceManifest("scalar", NoField, NoField, NoField, NoDependencies)
ArraySource == SourceManifest("array", NoField, NoField, NoField, NoDependencies)
NoSource == AbsentFile(ScalarSource)

\* The contents of portfile.cmake: the template with its placeholders filled
Portfile(owner, repo, hash_value, vcpkg_package_name) ==
    [owner |-> owner, repo |-> repo, ref |-> "v${VERSION}", sha512 |-> hash_value,
     package_name |-> vcpkg_package_name]

\* The dictionary vcpkg_data
VcpkgData(name, version, description, homepage, dependencies) ==
    [name |-> name, version |-> version, description |-> description,
     homepage |-> homepage, dependencies |-> dependencies]

\* registry/ports/<name>: missing, or a directory and the files in it
Port(exists_, name, portfile, vcpkg_json) ==
    [exists |-> exists_, name |-> name, portfile |-> portfile, vcpkg_json |-> vcpkg_json]
NoPortfile == [written |-> FALSE, text |-> Portfile(Str_empty, Str_empty, Str_empty, Str_empty)]
NoPortManifest ==
    [written |-> FALSE, json |-> VcpkgData(Str_empty, Str_empty, Str_empty, Str_empty, <<>>)]
\* json.dump(vcpkg_data, f, indent=2, ensure_ascii=False, separators=(',', ': '))
json_dump_port(data) == [written |-> TRUE, json |-> data]
NoPort == Port(FALSE, Str_empty, NoPortfile, NoPortManifest)

InitMerge ==
    /\ manifest \in MergeManifests
    /\ configFile \in ConfigFiles
    /\ sourceManifest = NoSource
    /\ port = NoPort
    /\ stdout = <<>>
    /\ stderr = <<>>
    /\ exitCode = -1
    /\ hist = <<>>

NextMerge == \E env \in MergeEnvs : MergeRun(env)

SpecMerge == InitMerge /\ [][NextMerge]_vars

----------------------------------------------------------------------------
(* Properties of the Registry Merger *)

Ran(script) == hist # <<>> /\ hist[Len(hist)].script = script
Last == hist[Len(hist)]

\* The "registries" array of a configuration, empty when the key is missing
RegistriesOf(config) == IF config.regs = "list" THEN config.registries ELSE <<>>

\* The configuration a run read, by the format it found
ConfigRead(run) ==
    IF run.config_type = "embedded" THEN run.manifest.json.configuration
    ELSE run.configFile.json

\* The configuration on disk now, in the format the run found
ConfigWritten(run) ==
    IF run.config_type = "embedded" THEN manifest.json.configuration
    ELSE configFile.json

NewEntry(run) ==
    [kind |-> "git", repository |-> "https://github.com/ridgetradinggroup/vcpkg-ridge",
     baseline |-> run.env.COMMIT_HASH.val, packages |-> <<run.env.VCPKG_PACKAGE_NAME.val>>]

\* C1: after a run of the merger that returns 0, the registries on disk are
\* the registries that were read (none when the key was missing) followed by
\* exactly one new entry {git, the private registry, COMMIT_HASH, [package]}
C1_AppendsOneEntry ==
    (Ran("merge") /\ Last.code = 0) =>
        /\ ConfigWritten(Last).regs = "list"
        /\ ConfigWritten(Last).registries = Append(RegistriesOf(ConfigRead(Last)), NewEntry(Last))

C1_Witness ==
    /\ Ran("merge") /\ Last.code = 0
    /\ Len(RegistriesOf(ConfigRead(Last))) >= 1
    /\ ConfigWritten(Last).registries[1] # NewEntry(Last)

\* C2: a successful run writes to the file it read: found embedded, vcpkg.json
\* gets the merged configuration under "configuration", keeps its other
\* members, and vcpkg-configuration.json is unchanged; found separate, only
\* vcpkg-configuration.json is replaced and vcpkg.json is unchanged
C2_WritesBackWhereRead ==
    (Ran("merge") /\ Last.code = 0) =>
        /\ Last.config_type \in {"embedded", "separate"}
        /\ Last.config_type = "embedded" =>
              /\ Last.manifest.state = "ok" /\ Last.manifest.json.hasConfiguration
              /\ configFile = Last.configFile
              /\ manifest.state = "ok"
              /\ manifest.json.configuration # Last.manifest.json.configuration
              /\ [manifest.json EXCEPT !.configuration = Last.manifest.json.configuration]
                     = Last.manifest.json
        /\ Last.config_type = "separate" =>
              /\ manifest = Last.manifest
              /\ configFile.state = "ok"
              /\ configFile # Last.configFile

C2_Witness ==
    /\ Ran("merge") /\ Last.code = 0
    /\ Last.config_type = "embedded"
    /\ Last.configFile.state = "ok"
    /\ Last.configFile.json.regs = "list"

\* vcpkg.json exists, parses and contains "configuration"
HasEmbedded(m) == m.state = "ok" /\ m.json.kind = "obj" /\ m.json.hasConfiguration

Logged(stream, msg) == \E i \in 1..Len(stream) : stream[i].msg = msg

\* C3: in a run that reaches discovery, the embedded configuration is used
\* iff vcpkg.json exists, parses and contains "configuration"; otherwise the
\* separate file is used iff it exists and parses; otherwise the run logs
\* that no configuration was found and exits 1; a parse failure of vcpkg.json
\* is logged and the separate file is still consulted
C3_DiscoveryFirstMatch ==
    (Ran("merge") /\ Truthy(Last.env.COMMIT_HASH) /\ Truthy(Last.env.VCPKG_PACKAGE_NAME)) =>
        LET emb == HasEmbedded(Last.manifest)
            sep == ~emb /\ Last.configFile.state = "ok"
        IN  /\ Last.config_type = "embedded" <=> emb
            /\ Last.config_type = "separate" <=> sep
            /\ (~emb /\ ~sep) =>
                  /\ exitCode = 1
                  /\ Logged(stdout \o stderr, "No vcpkg configuration found")
            /\ Last.manifest.state = "bad" =>
                  Logged(stdout \o stderr, "Failed to parse vcpkg.json")

\* C4: a second run with the same COMMIT_HASH and VCPKG_PACKAGE_NAME, after a
\* first run that succeeded, succeeds too, finds the same format, and leaves
\* the original registries followed by two equal new entries
C4_TwoRunsTwoEntries ==
    \A i \in 1..Len(hist) - 1 :
        (/\ i + 1 = Len(hist)
         /\ hist[i].script = "merge" /\ hist[i + 1].script = "merge"
         /\ hist[i].env = hist[i + 1].env
         /\ hist[i].code = 0) =>
            LET original == RegistriesOf(ConfigRead(hist[i]))
            IN  /\ hist[i + 1].code = 0
                /\ hist[i + 1].config_type = hist[i].config_type
                /\ ConfigWritten(hist[i]).registries
                       = original \o <<NewEntry(hist[i]), NewEntry(hist[i])>>
                /\ Len(ConfigWritten(hist[i]).registries) = Len(original) + 2

C4_Witness ==
    /\ Len(hist) >= 2
    /\ hist[Len(hist) - 1].env = Last.env
    /\ hist[Len(hist) - 1].code = 0
    /\ Last.code = 0
    /\ Len(RegistriesOf(ConfigRead(hist[Len(hist) - 1]))) >= 1

----------------------------------------------------------------------------
(* extract_vcpkg_version.py *)

\* An extractor whose error reports go to standard output
extract_error_stdout(message) == Emit("stdout", Line("error", message))

\* print('Error...', file=sys.stderr)
extract_error(message) == Emit("stderr", Line("error", message))

\* A lookup that prefers the last spelling
version_fields_reversed == <<"version-semver", "version-string", "version">>

version_fields == <<"version", "version-string", "version-semver">>

\* data[field] with `field in data` as present
Member(data, field) ==
    CASE field = "version" -> data.version
      [] field = "version-string" -> data.versionString
      [] field = "version-semver" -> data.versionSemver

\* Lines 23-28: the value of the first field that is in data; NoField is None
RECURSIVE first_version(_, _)
first_version(data, fields) ==
    IF fields = <<>> THEN NoField
    ELSE IF Member(data, Head(fields)).present THEN Member(data, Head(fields))
    ELSE first_version(data, Tail(fields))

\* print(version, end='')
print_version(version) == Emit("stdout", Value(version, FALSE))

ExtractResult(code, events) == [code |-> code, events |-> events]

extract_main(m) ==
    IF ~exists(m)
    THEN ExtractResult(1, <<extract_error("Error: vcpkg.json not found")>>)
    ELSE
    LET loaded == json_load(m)
        data == loaded.value
    IN  IF loaded.raised \/ data.kind = "scalar"
        THEN ExtractResult(1, <<extract_error("Error reading vcpkg.json")>>)
        ELSE
        LET version == IF data.kind = "obj" THEN first_version(data, version_fields)
                       ELSE NoField
        IN  IF ~version.present \/ version.val = Str_empty
            THEN ExtractResult(1, <<extract_error("Error: No version found in vcpkg.json")>>)
            ELSE ExtractResult(0, <<print_version(version.val)>>)

ExtractRun ==
    /\ hist = <<>>
    /\ LET r == extract_main(manifest)
       IN  /\ stdout' = OnStream(r.events, "stdout")
           /\ stderr' = OnStream(r.events, "stderr")
           /\ exitCode' = r.code
           /\ hist' = Append(hist, Run("extract", Env(Unset, Unset, Unset, Unset, Unset, Unset),
                                        r.code, "none"))
    /\ UNCHANGED <<manifest, configFile, sourceManifest, port>>

\* A version member of the manifest: missing, or text that may be empty
VersionValues == {NoField} \cup {Field(v) : v \in SeqsUpTo({"1", "2"}, MaxVerLen)}

ExtractManifests ==
    {AbsentFile(ScalarManifest), BadFile(ScalarManifest),
     json_dump(ScalarManifest), json_dump(ArrayManifest)}
        \cup {json_dump(Manifest("obj", FALSE, NullConfig, v, vs, vv)) :
                 v \in VersionValues, vs \in VersionValues, vv \in VersionValues}

InitExtract ==
    /\ manifest \in ExtractManifests
    /\ configFile = AbsentFile(NullConfig)
    /\ sourceManifest = NoSource
    /\ port = NoPort
    /\ stdout = <<>>
    /\ stderr = <<>>
    /\ exitCode = -1
    /\ hist = <<>>

NextExtract == ExtractRun

SpecExtract == InitExtract /\ [][NextExtract]_vars

----------------------------------------------------------------------------
(* Properties of the Version Extractor *)

IsObject(m) == m.state = "ok" /\ m.json.kind = "obj"

Present(m) ==
    {f \in {"version", "version-string", "version-semver"} : Member(m.json, f).present}

\* The value of the first present field in the order version, version-string,
\* version-semver
FirstPresent(m) ==
    IF m.json.version.present THEN m.json.version.val
    ELSE IF m.json.versionString.present THEN m.json.versionString.val
    ELSE m.json.versionSemver.val

\* C5 as stated: for a manifest that parses and contains at least one of the
\* three fields, with any value, the extractor writes the value of the first
\* present field, without a newline, and exits 0
C5_AnyValueEmitted ==
    (Ran("extract") /\ IsObject(manifest) /\ Present(manifest) # {}) =>
        /\ exitCode = 0
        /\ stdout = <<[kind |-> "value", msg |-> "", val |-> FirstPresent(manifest), nl |-> FALSE]>>

\* C5 amended: when the first present field has a non-empty value, the
\* extractor writes that value, without a newline, and exits 0; when its
\* value is empty, the extractor exits 1 and writes nothing to standard output
C5_NonEmptyValueEmitted ==
    (Ran("extract") /\ IsObject(manifest) /\ Present(manifest) # {}) =>
        IF FirstPresent(manifest) # <<>>
        THEN /\ exitCode = 0
             /\ stdout = <<[kind |-> "value", msg |-> "", val |-> FirstPresent(manifest), nl |-> FALSE]>>
        ELSE /\ exitCode = 1
             /\ stdout = <<>>

C5_Witness ==
    /\ Ran("extract") /\ IsObject(manifest)
    /\ ~manifest.json.version.present
    /\ manifest.json.versionString.present /\ manifest.json.versionSemver.present
    /\ manifest.json.versionString.val # <<>>
    /\ manifest.json.versionString.val # manifest.json.versionSemver.val
    /\ exitCode = 0

\* C10: for a manifest that is absent, unparsable, or parses but contains
\* none of the three fields, the extractor exits 1 and writes nothing to
\* standard output; the reason is on the error stream
C10_FailureSilentOnStdout ==
    (/\ Ran("extract")
     /\ \/ manifest.state \in {"absent", "bad"}
        \/ manifest.state = "ok" /\ (manifest.json.kind # "obj" \/ Present(manifest) = {})) =>
        /\ exitCode = 1
        /\ stdout = <<>>
        /\ Len(stderr) >= 1

C10_Witness ==
    /\ Ran("extract") /\ IsObject(manifest) /\ Present(manifest) = {}
    /\ exitCode = 1

----------------------------------------------------------------------------
(* generate_port_files.py *)

\* log_info, log_warning and log_error print to standard output
gen_log_info(message) == Emit("stdout", Line("info", message))
gen_log_warning(message) == Emit("stdout", Line("warning", message))
gen_log_error(message) == Emit("stdout", Line("error", message))

\* An element of "dependencies": a string, or an object {"name": ...}
Dep(isStr, name) == [isStr |-> isStr, name |-> name]

\* str.lstrip(ch): every leading ch is removed
RECURSIVE lstrip(_, _)
lstrip(s, ch) ==
    IF s # <<>> /\ Head(s) = ch THEN lstrip(Tail(s), ch) ELSE s

\* A prefix test that ignores the case of the first letter
startswith_nocase(s, prefix) ==
    /\ Len(s) >= Len(prefix)
    /\ \A i \in 1..Len(prefix) :
          \/ s[i] = prefix[i]
          \/ i = 1 /\ s[i] = "V" /\ prefix[i] = "v"

\* str.startswith(prefix)
startswith(s, prefix) ==
    /\ Len(s) >= Len(prefix)
    /\ SubSeq(s, 1, Len(prefix)) = prefix

\* str.split(sep) for a separator of one character
RECURSIVE split(_, _)
split(s, sep) ==
    IF \A i \in 1..Len(s) : s[i] # sep THEN <<s>>
    ELSE LET at == CHOOSE i \in 1..Len(s) : s[i] = sep /\ \A j \in 1..(i - 1) : s[j] # sep
         IN  <<SubSeq(s, 1, at - 1)>> \o split(SubSeq(s, at + 1, Len(s)), sep)

\* Line 120: the dependencies that are kept
RECURSIVE filtered_user_deps(_)
filtered_user_deps(user_deps) ==
    IF user_deps = <<>> THEN <<>>
    ELSE LET dep == Head(user_deps)
         IN  (IF ~(dep.isStr /\ startswith(dep.name, Str_vcpkg_cmake)) THEN <<dep>> ELSE <<>>)
                 \o filtered_user_deps(Tail(user_deps))

\* dict.get(key, default)
get(field, default) == IF field.present THEN field.val ELSE default

Str_library == <<" ", "l", "i", "b", "r", "a", "r", "y">>
Str_github == <<"h", "t", "t", "p", "s", ":", "/", "/", "g", "i", "t", "h", "u", "b", ".", "c", "o", "m", "/">>

\* Lines 107-121: vcpkg_data
vcpkg_data(source_vcpkg, tag_version, github_repo) ==
    LET vcpkg_package_name == source_vcpkg.name.val
    IN  VcpkgData(vcpkg_package_name,
            lstrip(tag_version, "v"),
            get(source_vcpkg.description, vcpkg_package_name \o Str_library),
            get(source_vcpkg.homepage, Str_github \o github_repo),
            <<Dep(TRUE, Str_vcpkg_cmake), Dep(TRUE, Str_vcpkg_cmake_config)>>
                \o filtered_user_deps(get(source_vcpkg.dependencies, <<>>)))

GenResult(code, events, p) == [code |-> code, events |-> events, port |-> p]

gen_unexpected ==
    <<gen_log_error("Unexpected error in main()"), gen_log_error("Exception type"),
      gen_log_error("Full traceback:"), print_exc>>

gen_main(env, src, p) ==
    LET repo_name == env.REPO_NAME
        tag_version == env.TAG_VERSION
        hash_value == env.HASH
        github_repo == env.GITHUB_REPOSITORY
        started == <<gen_log_info("Starting port file generation..."),
                     gen_log_info("Repository"), gen_log_info("Package name"),
                     gen_log_info("Version")>>
    IN  IF ~hash_value.set
        THEN GenResult(1, started \o gen_unexpected, p)
        ELSE IF ~(Truthy(repo_name) /\ Truthy(tag_version) /\ Truthy(hash_value) /\ Truthy(github_repo))
        THEN GenResult(1, started \o <<gen_log_info("Hash"),
                             gen_log_error("Missing required environment variables"),
                             gen_log_error("REPO_NAME"), gen_log_error("TAG_VERSION"),
                             gen_log_error("HASH"), gen_log_error("GITHUB_REPOSITORY")>>, p)
        ELSE
        LET parts == split(github_repo.val, "/")
            checked == Append(started, gen_log_info("Hash"))
        IN  IF Len(parts) # 2
            THEN GenResult(1, checked \o gen_unexpected, p)
            ELSE
            LET owner == parts[1]
                repo == parts[2]
                looking == checked \o <<gen_log_info("Owner, Repo"),
                                        gen_log_info("Looking for source vcpkg.json")>>
            IN  IF ~exists(src)
                THEN GenResult(1, looking \o <<gen_log_error("FATAL: vcpkg.json not found"),
                                     gen_log_error("vcpkg.json is required in the top of source tree for vcpkg package generation"),
                                     gen_log_error("Please ensure your project has a valid vcpkg.json manifest file")>>, p)
                ELSE
                LET loaded == json_load(src)
                    source_vcpkg == loaded.value
                    reading == Append(looking, gen_log_info("Reading REQUIRED vcpkg.json from source..."))
                IN  IF loaded.raised
                    THEN GenResult(1, reading \o <<gen_log_error("FATAL: JSON decode error reading source vcpkg.json"),
                                         gen_log_error("Source vcpkg.json contains invalid JSON syntax")>>, p)
                    ELSE IF source_vcpkg.kind # "obj"
                    THEN GenResult(1, reading \o <<gen_log_error("FATAL: Unexpected error reading source vcpkg.json"),
                                         gen_log_error("Exception type")>>, p)
                    ELSE IF ~source_vcpkg.name.present
                    THEN GenResult(1, reading \o <<gen_log_info("Source vcpkg.json keys"),
                                         gen_log_error("FATAL: 'name' field is missing from source vcpkg.json"),
                                         gen_log_error("vcpkg.json must contain a 'name' field for package identification")>>, p)
                    ELSE
                    LET vcpkg_package_name == source_vcpkg.name.val
                        data == vcpkg_data(source_vcpkg, tag_version.val, github_repo.val)
                        done == reading
                            \o <<gen_log_info("Source vcpkg.json keys"),
                                 gen_log_info("Using vcpkg package name from source"),
                                 gen_log_info("Source dependencies"),
                                 gen_log_info("Final dependencies"),
                                 gen_log_info("Successfully processed REQUIRED vcpkg.json from source"),
                                 gen_log_info("Creating port directory"),
                                 gen_log_info("Generating portfile.cmake content..."),
                                 gen_log_info("Writing portfile.cmake"),
                                 gen_log_info("portfile.cmake written"),
                                 gen_log_info("Writing vcpkg.json"),
                                 gen_log_info("Final vcpkg.json data"),
                                 gen_log_info("vcpkg.json written"),
                                 gen_log_info("Generated port files"),
                                 gen_log_info("   - portfile.cmake"),
                                 gen_log_info("   - vcpkg.json")>>
                    IN  GenResult(0, done,
                            Port(TRUE, vcpkg_package_name,
                                 [written |-> TRUE,
                                  text |-> Portfile(owner, repo, hash_value.val, vcpkg_package_name)],
                                 json_dump_port(data)))

\* The process without --get-name: main() and the __main__ block
gen_process(env, src, p) ==
    LET r == gen_main(env, src, p)
    IN  IF r.code # 0
        THEN [r EXCEPT !.events = Append(@, Emit("stdout", Line("error", "Script failed with exit code")))]
        ELSE r

\* get_vcpkg_name(): the name, or NoField for None
get_vcpkg_name(src) ==
    IF ~exists(src)
    THEN [name |-> NoField,
          events |-> <<gen_log_error("FATAL: vcpkg.json not found"),
                       gen_log_error("vcpkg.json is required in the top of source tree")>>]
    ELSE
    LET loaded == json_load(src)
        source_vcpkg == loaded.value
    IN  IF loaded.raised
        THEN [name |-> NoField,
              events |-> <<gen_log_error("FATAL: JSON decode error reading source vcpkg.json")>>]
        ELSE IF source_vcpkg.kind = "scalar"
        THEN [name |-> NoField,
              events |-> <<gen_log_error("FATAL: Unexpected error reading source vcpkg.json")>>]
        ELSE IF source_vcpkg.kind = "array" \/ ~source_vcpkg.name.present
        THEN [name |-> NoField,
              events |-> <<gen_log_error("FATAL: 'name' field is missing from source vcpkg.json"),
                           gen_log_error("vcpkg.json must contain a 'name' field for package identification")>>]
        ELSE [name |-> source_vcpkg.name, events |-> <<>>]

\* The process with --get-name
get_name_process(src) ==
    LET got == get_vcpkg_name(src)
    IN  IF got.name.present /\ got.name.val # Str_empty
        THEN GenResult(0, Append(got.events, Emit("stdout", Value(got.name.val, TRUE))), NoPort)
        ELSE GenResult(1, got.events, NoPort)

GenRun(env) ==
    /\ hist = <<>>
    /\ LET r == gen_process(env, sourceManifest, port)
       IN  /\ port' = r.port
           /\ stdout' = OnStream(r.events, "stdout")
           /\ stderr' = OnStream(r.events, "stderr")
           /\ exitCode' = r.code
           /\ hist' = Append(hist, Run("gen", env, r.code, "none"))
    /\ UNCHANGED <<manifest, configFile, sourceManifest>>

GetNameRun ==
    /\ hist = <<>>
    /\ LET r == get_name_process(sourceManifest)
       IN  /\ stdout' = OnStream(r.events, "stdout")
           /\ stderr' = OnStream(r.events, "stderr")
           /\ exitCode' = r.code
           /\ hist' = Append(hist, Run("getname", Env(Unset, Unset, Unset, Unset, Unset, Unset),
                                        r.code, "none"))
    /\ UNCHANGED <<manifest, configFile, sourceManifest, port>>

DepItems ==
    {Dep(TRUE, Str_vcpkg_cmake), Dep(TRUE, Str_vcpkg_cmake_fix), Dep(TRUE, Str_zlib),
     Dep(TRUE, Str_Vcpkg_cmake), Dep(TRUE, Str_vcpkg_cmak), Dep(FALSE, Str_vcpkg_cmake_config)}

DependencyLists ==
    {NoDependencies} \cup {[present |-> TRUE, val |-> d] : d \in SeqsUpTo(DepItems, MaxDeps)}

SourceManifests ==
    {NoSource, BadFile(ScalarSource), json_dump(ScalarSource), json_dump(ArraySource),
     json_dump(SourceManifest("obj", NoField, NoField, NoField, NoDependencies)),
     json_dump(SourceManifest("obj", Field(Str_empty), NoField, NoField, NoDependencies))}
        \cup {json_dump(SourceManifest("obj", Field(Str_widget), d, h, deps)) :
                 d \in {NoField, Field(<<"d">>)}, h \in {NoField, Field(<<"h">>)},
                 deps \in DependencyLists}

Tags == SeqsUpTo({"v", "1"}, MaxTagLen)

GenEnvs ==
    {Env(Unset, Unset, r, t, h, g) :
        r \in {Unset, EnvOf(Str_empty), EnvOf(Str_widget)},
        t \in {Unset} \cup {EnvOf(tag) : tag \in Tags},
        h \in {Unset, EnvOf(Str_empty), EnvOf(Str_hash)},
        g \in {Unset, EnvOf(Str_empty), EnvOf(<<"o", "/", "r">>), EnvOf(<<"o", "r">>)}}

InitGen ==
    /\ manifest = AbsentFile(ScalarManifest)
    /\ configFile = AbsentFile(NullConfig)
    /\ sourceManifest \in SourceManifests
    /\ port = NoPort
    /\ stdout = <<>>
    /\ stderr = <<>>
    /\ exitCode = -1
    /\ hist = <<>>

NextGen ==
    \/ \E env \in GenEnvs : GenRun(env)
    \/ GetNameRun

SpecGen == InitGen /\ [][NextGen]_vars

----------------------------------------------------------------------------
(* Properties of the Port File Generator *)

\* C6: the version of the output manifest is TAG_VERSION without one leading
\* "v" when it starts with "v", and TAG_VERSION itself otherwise: at most one
\* character is removed
C6_OneLeadingVStripped ==
    (Ran("gen") /\ exitCode = 0) =>
        LET tag == Last.env.TAG_VERSION.val
        IN  /\ port.vcpkg_json.written
            /\ port.vcpkg_json.json.version = (IF tag[1] = "v" THEN Tail(tag) ELSE tag)

BootstrapDeps ==
    << [isStr |-> TRUE, name |-> <<"v", "c", "p", "k", "g", "-", "c", "m", "a", "k", "e">>],
       [isStr |-> TRUE, name |-> <<"v", "c", "p", "k", "g", "-", "c", "m", "a", "k", "e",
                                   "-", "c", "o", "n", "f", "i", "g">>] >>

HasBootstrapPrefix(dep) ==
    /\ Len(dep.name) >= Len(BootstrapDeps[1].name)
    /\ \A i \in 1..Len(BootstrapDeps[1].name) : dep.name[i] = BootstrapDeps[1].name[i]

SourceDependencies ==
    IF sourceManifest.json.dependencies.present THEN sourceManifest.json.dependencies.val
    ELSE <<>>

\* C7: for source dependencies that are all strings, the output dependencies
\* are vcpkg-cmake, vcpkg-cmake-config, then the source dependencies that do
\* not start with "vcpkg-cmake", in their order and multiplicity
C7_DependenciesFiltered ==
    (/\ Ran("gen") /\ exitCode = 0
     /\ \A i \in 1..Len(SourceDependencies) : SourceDependencies[i].isStr) =>
        LET kept(dep) == ~HasBootstrapPrefix(dep)
        IN  port.vcpkg_json.json.dependencies = BootstrapDeps \o SelectSeq(SourceDependencies, kept)

C7_Witness ==
    /\ Ran("gen") /\ exitCode = 0
    /\ Len(SourceDependencies) = 2
    /\ SourceDependencies[1].isStr /\ SourceDependencies[2].isStr
    /\ HasBootstrapPrefix(SourceDependencies[1])
    /\ ~HasBootstrapPrefix(SourceDependencies[2])
    /\ SourceDependencies[2].name[1] = "V"

\* C8: standard output holds only the result value, and only in an
\* extraction mode: every log line is on the error stream, and a full
\* generation and a failing name extraction write nothing to standard output
C8_StdoutOnlyResult ==
    /\ \A i \in 1..Len(stdout) : stdout[i].kind = "value"
    /\ Ran("gen") => stdout = <<>>
    /\ (Ran("getname") /\ exitCode # 0) => stdout = <<>>

\* C9: with one of REPO_NAME, TAG_VERSION, HASH, GITHUB_REPOSITORY unset or
\* empty, full generation logs the report of the missing variables, returns 1
\* and creates nothing
C9_MissingEnvReported ==
    (/\ Ran("gen")
     /\ \E e \in {Last.env.REPO_NAME, Last.env.TAG_VERSION, Last.env.HASH,
                  Last.env.GITHUB_REPOSITORY} : ~e.set \/ e.val = <<>>) =>
        /\ exitCode = 1
        /\ port = Last.port
        /\ Logged(stdout \o stderr, "Missing required environment variables")
        /\ Logged(stdout \o stderr, "HASH")
        /\ ~Logged(stdout \o stderr, "Looking for source vcpkg.json")

====
